---- MODULE Spec2Model ----
(***************************************************************************)
(* Model of the Higress MCP client (src/client.py, src/tools/handler.py):  *)
(* the LangGraph state graph assistant -> {safe_tools, sensitive_tools,    *)
(* END}, compiled with interrupt_before = ["sensitive_tools"] and a        *)
(* MemorySaver checkpointer, and the command line loop that drives it      *)
(* (build_and_run_graph, process_tool_calls).                              *)
(*                                                                         *)
(* One action per super-step of the graph (the checkpointer stores the     *)
(* state after each of them) and one per prompt of the command line loop.  *)
(* Strings the code inspects character by character (the user's query and  *)
(* the approval input) are sequences of one-character strings; message     *)
(* contents are sequences of text fragments in the order the code          *)
(* concatenates them.                                                      *)
(*                                                                         *)
(* The operations of HigressClient (src/utils/higress_client.py), of the   *)
(* tools that call them and of src/server.py are operators over their      *)
(* arguments and the server's responses; ClientSpec applies them.          *)
(***************************************************************************)
EXTENDS Integers, Sequences, FiniteSets, TLC

(* ---------------------------- bounds ----------------------------------- *)
\* Reasoner (LLM) invocations in one run of the client.
MaxLLMCalls == 2
\* Tool calls (ProposedActions) the Reasoner emits in one run, over all proposals.
MaxActions == 2

(* ------------------------- static configuration ------------------------ *)
END == "__end__"

NoNext == "none"

SENSITIVE_TOOLS ==
    {"add_route", "add_service_source", "update_route",
     "update_request_block_plugin", "update_service_source"}

\* The HTTP requests each registered tool issues when it runs to completion.
ToolRequests ==
    [get_plugin |-> <<"GET">>,
     set_plugin |-> <<"GET", "PUT">>,
     update_request_block_plugin |-> <<"GET", "PUT">>,
     list_routes |-> <<"GET">>,
     get_route |-> <<"GET">>,
     add_route |-> <<"POST">>,
     update_route |-> <<"PUT">>,
     list_service_sources |-> <<"GET">>,
     add_service_source |-> <<"POST">>,
     get_service_source |-> <<"GET">>,
     update_service_source |-> <<"PUT">>]

\* The tools the MCP server lists (session.list_tools / load_mcp_tools).
tools == DOMAIN ToolRequests

Mutates(name) ==
    /\ name \in tools
    /\ \E i \in 1..Len(ToolRequests[name]) : ToolRequests[name][i] \in {"PUT", "POST"}

\* A sensitive node that holds the tools that send a PUT or a POST.
tools_that_mutate == {t \in tools : Mutates(t)}

sensitive_tools == {t \in tools : t \in SENSITIVE_TOOLS}

safe_tools == {t \in tools : t \notin SENSITIVE_TOOLS}

(* ----------------------- inputs the model draws ------------------------ *)
\* Names the Reasoner may put in a tool call: registered tools of each kind
\* and a name of no registered tool.
ProposalNames == {"get_plugin", "set_plugin", "update_route", "add_route", "unknown_tool"}

ProposalArgs == {"args1", "args2"}

AnswerTexts == {<<>>, <<"answer">>}

Queries == {<<"Q">>, <<"q", "u", "i", "t">>, <<"h", "i">>, <<"y">>}

ApprovalInputs == {<<"y">>, <<" ", "Y", " ">>, <<>>, <<"q", "u", "i", "t">>}

(* ------------------------------ strings -------------------------------- *)
IsSpace(c) == c \in {" ", "\t", "\n"}

LowerChar(c) ==
    CASE c = "Y" -> "y"
      [] c = "Q" -> "q"
      [] c = "N" -> "n"
      [] OTHER -> c

\* str.lower()
Lower(s) == [i \in 1..Len(s) |-> LowerChar(s[i])]

RECURSIVE LStrip(_)
LStrip(s) == IF s # <<>> /\ IsSpace(Head(s)) THEN LStrip(Tail(s)) ELSE s

RECURSIVE RStrip(_)
RStrip(s) ==
    IF s # <<>> /\ IsSpace(s[Len(s)]) THEN RStrip(SubSeq(s, 1, Len(s) - 1)) ELSE s

\* str.strip()
Strip(s) == RStrip(LStrip(s))

(* ------------------------------ messages ------------------------------- *)
HumanMessage(content) ==
    [type |-> "human", content |-> content, tool_calls |-> <<>>,
     tool_call_id |-> 0, status |-> "none"]

AIMessage(content, calls) ==
    [type |-> "ai", content |-> content, tool_calls |-> calls,
     tool_call_id |-> 0, status |-> "none"]

ToolMessage(content, id, status) ==
    [type |-> "tool", content |-> content, tool_calls |-> <<>>,
     tool_call_id |-> id, status |-> status]

ToolCall(id, name, args) == [id |-> id, name |-> name, args |-> args]

\* A messages channel without reducer: an update replaces the value.
replace_messages(left, right) == right

\* The add_messages reducer of State.messages: new messages carry fresh ids,
\* so they are appended.
add_messages(left, right) == left \o right

Last(s) == s[Len(s)]

(* ============================ HigressClient ============================ *)
(* src/utils/higress_client.py and the tools that call it. A dict is a     *)
(* function from its keys; an optional value is <<>> (None) or <<v>>; a    *)
(* field value "" stands for any value Python takes as false (None, '',    *)
(* 0, an empty list or dict). An operation is an operator from its         *)
(* arguments and the responses of the server, in the order of the requests,*)
(* to the requests it sent and its outcome.                                *)
(* ======================================================================= *)
None == <<>>

Some(v) == <<v>>

Return(v) == [kind |-> "return", value |-> Some(v)]

Raise(exception) == [kind |-> exception, value |-> None]

Ran(requests, outcome) == [sent |-> requests, outcome |-> outcome]

Request(method, path, json) == [method |-> method, path |-> path, json |-> json]

(* ----------------------- what the server answers ----------------------- *)
\* requests.get/put/post raises (no connection), raise_for_status() raises
\* (status 4xx/5xx), or the body is a JSON object.
Transport == [kind |-> "transport"]

Status(code) == [kind |-> "status", code |-> code]

Json(body) == [kind |-> "json", body |-> body]

\* The shapes of a JSON body that carries payload: under "data" with or
\* without "success", or as the body itself.
Bodies(payload) ==
    {[success |-> TRUE, data |-> payload], [data |-> payload], payload}

ApiError == [success |-> FALSE, message |-> "failed"]

Responses(payloads) ==
    {Transport, Status(404), Status(500), Json(ApiError)}
        \cup {Json(b) : b \in UNION {Bodies(p) : p \in payloads}}

(* ------------------------------ transport ------------------------------ *)
\* HigressClient._process_response
process_response(response) ==
    IF response.kind = "status" THEN Raise("RequestException")
    ELSE LET response_json == response.body
         IN  IF "success" \in DOMAIN response_json /\ response_json.success = FALSE
             THEN Raise("ValueError")
             ELSE Return(IF "data" \in DOMAIN response_json
                         THEN response_json.data ELSE response_json)

\* A request that lets the exception of the requests library through.
send_uncaught(method, path, json, response) ==
    Ran(<<Request(method, path, json)>>,
        IF response.kind = "transport" THEN Raise("RequestException")
        ELSE process_response(response))

\* The try/except of get, post and put: the request is sent, and a
\* RequestException of the call or of _process_response becomes a ValueError.
send(method, path, json, response) ==
    LET result == IF response.kind = "transport" THEN Raise("RequestException")
                  ELSE process_response(response)
    IN  Ran(<<Request(method, path, json)>>,
            IF result.kind = "RequestException" THEN Raise("ValueError") ELSE result)

get(path, response) == send("GET", path, None, response)

post(path, data, response) == send("POST", path, Some(data), response)

put(path, data, response) == send("PUT", path, Some(data), response)

(* ------------------------------ operations ----------------------------- *)
\* not d.get(key): the key is missing or its value is false.
Lacks(d, key) == key \notin DOMAIN d \/ d[key] = ""

\* The paths dict of get_plugin and update_plugin, as path segments.
PluginPaths(name, resource_name) ==
    [global |-> <<"v1", "global", "plugin-instances", name>>,
     domain |-> <<"v1", "domains", resource_name, "plugin-instances", name>>,
     service |-> <<"v1", "services", resource_name, "plugin-instances", name>>,
     route |-> <<"v1", "routes", resource_name, "plugin-instances", name>>]

\* HigressClient.get_plugin
get_plugin(name, scope, resource_name, response) ==
    IF scope # "global" /\ resource_name = "" THEN Ran(<<>>, Raise("ValueError"))
    ELSE LET paths == PluginPaths(name, resource_name)
         IN  IF scope \notin DOMAIN paths THEN Ran(<<>>, Raise("ValueError"))
             ELSE get(paths[scope], response)

\* A configuration update that takes the supplied dict as the new one.
dict_replace(config, configurations) == configurations

\* dict.update: the supplied keys override, the other keys stay.
dict_update(config, configurations) ==
    [k \in DOMAIN config \cup DOMAIN configurations |->
        IF k \in DOMAIN configurations THEN configurations[k] ELSE config[k]]

\* HigressClient.update_plugin, lines 198-205: the body of the PUT.
\* configurations is None or a dict; a None or an empty one is false.
updated_plugin(data, enabled, configurations) ==
    LET current == IF data.configurations = None THEN <<>> ELSE data.configurations[1]
        config == IF configurations # None /\ DOMAIN configurations[1] # {}
                  THEN dict_update(current, configurations[1])
                  ELSE current
    IN  [data EXCEPT !.configurations = Some(config), !.enabled = enabled]

\* HigressClient.update_plugin: responses[1] answers the GET, responses[2] the PUT.
update_plugin(name, enabled, configurations, scope, resource_name, responses) ==
    LET read == get_plugin(name, scope, resource_name, responses[1])
    IN  IF read.outcome.kind # "return" THEN read
        ELSE LET data == updated_plugin(read.outcome.value[1], enabled, configurations)
                 paths == PluginPaths(name, resource_name)
             IN  IF scope \notin DOMAIN paths
                 THEN Ran(read.sent, Raise("ValueError"))
                 ELSE LET write == put(paths[scope], data, responses[2])
                      IN  Ran(read.sent \o write.sent, write.outcome)

\* RequestBlockTools.update_request_block_plugin
update_request_block_plugin(enabled, configurations, scope, resource_name, responses) ==
    update_plugin("request-block", enabled, configurations, scope, resource_name, responses)

\* HigressClient.update_route
update_route(route_name, route_config, response) ==
    IF route_name = "" THEN Ran(<<>>, Raise("ValueError"))
    ELSE put(<<"v1", "routes", route_name>>, route_config, response)

\* A Python call of update_route(self, route_name, route_config) with the
\* positional arguments args: any other number than two is a TypeError
\* raised before the body runs.
call_update_route(args, response) ==
    IF Len(args) # 2 THEN Ran(<<>>, Raise("TypeError"))
    ELSE update_route(args[1], args[2], response)

\* RouteTools.update_route (the tool), line 183:
\* self.higress_client.update_route(route_config)
update_route_tool(route_name, route_config, response) ==
    call_update_route(<<route_config>>, response)

\* An add_route that asks for a name only.
add_route_checking_name(route_config, response) ==
    IF Lacks(route_config, "name") THEN Ran(<<>>, Raise("ValueError"))
    ELSE post(<<"v1", "routes">>, route_config, response)

\* HigressClient.add_route
add_route(route_config, response) ==
    IF Lacks(route_config, "name") THEN Ran(<<>>, Raise("ValueError"))
    ELSE IF Lacks(route_config, "path") THEN Ran(<<>>, Raise("ValueError"))
    ELSE IF Lacks(route_config, "services") THEN Ran(<<>>, Raise("ValueError"))
    ELSE post(<<"v1", "routes">>, route_config, response)

\* HigressClient.add_service_source
add_service_source(service_source_config, response) ==
    IF Lacks(service_source_config, "name") THEN Ran(<<>>, Raise("ValueError"))
    ELSE IF Lacks(service_source_config, "type") THEN Ran(<<>>, Raise("ValueError"))
    ELSE IF Lacks(service_source_config, "domain") THEN Ran(<<>>, Raise("ValueError"))
    ELSE IF Lacks(service_source_config, "port") THEN Ran(<<>>, Raise("ValueError"))
    ELSE IF service_source_config["type"] = "dns" /\ Lacks(service_source_config, "protocol")
    THEN Ran(<<>>, Raise("ValueError"))
    ELSE post(<<"v1", "service-sources">>, service_source_config, response)

(* ------------------------------ server.py ------------------------------ *)
\* A plugin configuration is a function from its fields to the kind of value
\* each holds: "strings" (a list of str), "mixed" (a list with another item),
\* "string", "number" (int or float) or "bool".
\* validate_plugin_config: TRUE when it returns, FALSE when it raises ValueError.
\* isinstance(True, (int, float)) holds in Python: a bool passes as blocked_code.
validate_plugin_config(config) ==
    /\ \E field \in {"block_urls", "block_headers", "block_bodies"} : field \in DOMAIN config
    /\ \A field \in {"block_urls", "block_exact_urls", "block_regexp_urls",
                     "block_headers", "block_bodies"} :
          field \in DOMAIN config => config[field] = "strings"
    /\ "blocked_code" \in DOMAIN config => config["blocked_code"] \in {"number", "bool"}
    /\ "blocked_message" \in DOMAIN config => config["blocked_message"] = "string"
    /\ "case_sensitive" \in DOMAIN config => config["case_sensitive"] = "bool"

\* server.py get_plugin: status 404 is a ValueError, any other failure of the
\* request is turned into one; the body is returned as it is.
server_get_plugin(name, response) ==
    Ran(<<Request("GET", <<"v1", "global", "plugin-instances", name>>, None)>>,
        IF response.kind = "json" THEN Return(response.body) ELSE Raise("ValueError"))

\* server.py set_plugin: responses[1] answers the GET, responses[2] the PUT.
set_plugin(name, configurations, responses) ==
    IF ~validate_plugin_config(configurations) THEN Ran(<<>>, Raise("ValueError"))
    ELSE LET read == server_get_plugin(name, responses[1])
         IN  IF read.outcome.kind # "return" THEN read
             ELSE LET body == read.outcome.value[1]
                      current_config ==
                          [k \in DOMAIN body \cup {"configurations"} |->
                              IF k = "configurations" THEN Some(configurations) ELSE body[k]]
                      write == Request("PUT", <<"v1", "global", "plugin-instances", name>>,
                                       Some(current_config))
                  IN  Ran(read.sent \o <<write>>,
                          IF responses[2].kind = "json"
                          THEN Return(responses[2].body) ELSE Raise("ValueError"))

(* ------------------- inputs the client model draws --------------------- *)
Scopes == {"global", "domain", "service", "route", "cluster"}

\* "" stands for a resource_name that is None or empty.
ResourceNames == {"", "r1"}

ConfigKeys == {"blocked_code", "block_urls"}

ConfigValues == {"a", "b"}

Configs == UNION {[keys -> ConfigValues] : keys \in SUBSET ConfigKeys}

OptionalConfigs == {None} \cup {Some(c) : c \in Configs}

\* The plugin instances the server may hold.
PluginPayloads ==
    {[name |-> "request-block", enabled |-> e, configurations |-> c] :
        e \in BOOLEAN, c \in OptionalConfigs}

\* What the server answers to a write, and to a read of routes.
Saved == [name |-> "saved"]

Fields(keys, values) == UNION {[present -> values] : present \in SUBSET keys}

RouteConfigs == Fields({"name", "path", "services"}, {"", "x"})

ServiceSourceConfigs ==
    {c \in Fields({"name", "type", "domain", "port", "protocol"}, {"", "x", "dns"}) :
        \A k \in DOMAIN c : c[k] = "dns" => k = "type"}

PluginConfigs ==
    Fields({"block_urls", "blocked_code", "case_sensitive"},
           {"strings", "mixed", "string", "number", "bool"})

VARIABLES
    messages,   \* State.messages of the latest checkpoint of the thread
    next,       \* StateSnapshot.next of the latest checkpoint: the node to run
    pc,         \* where the command line loop is
    llmCalls,   \* Reasoner invocations so far
    nextId,     \* the id the Reasoner gives its next tool call
    invoked,    \* the calls handed to a registered tool, in order
    approved,   \* the tool calls that were pending when the user entered 'y'
    event,      \* the step taken last
    http        \* the HigressClient operation run last: its call, the responses the
                \* server had for its requests, the requests sent and the outcome

vars == <<messages, next, pc, llmCalls, nextId, invoked, approved, event, http>>

\* No operation of the client has been called.
Idle == [call |-> <<"idle">>, responses |-> <<>>, sent |-> <<>>, outcome |-> Raise("none")]

Event(op, input, fails, bubble) ==
    [op |-> op, input |-> input, fails |-> fails, bubble |-> bubble]

Step(op) == Event(op, <<>>, {}, FALSE)

(* ------------------------------ routing -------------------------------- *)
\* A condition that routes to the tools only a message with several tool calls.
tools_condition_above_one(msgs) ==
    IF Last(msgs).type = "ai" /\ Len(Last(msgs).tool_calls) > 1 THEN "tools" ELSE END

\* langgraph.prebuilt.tools_condition
tools_condition(msgs) ==
    IF Last(msgs).type = "ai" /\ Len(Last(msgs).tool_calls) > 0 THEN "tools" ELSE END

\* A routing that looks at the last tool call instead of the first.
route_by_last_call(msgs) ==
    IF tools_condition(msgs) = END THEN END
    ELSE IF Last(msgs).tool_calls[Len(Last(msgs).tool_calls)].name \in SENSITIVE_TOOLS
    THEN "sensitive_tools"
    ELSE "safe_tools"

\* A routing that takes every name outside the safe tools as sensitive.
route_unlisted_as_sensitive(msgs) ==
    IF tools_condition(msgs) = END THEN END
    ELSE IF Last(msgs).tool_calls[1].name \notin safe_tools THEN "sensitive_tools"
    ELSE "safe_tools"

route_conditional_tools(msgs) ==
    IF tools_condition(msgs) = END THEN END
    ELSE IF Last(msgs).tool_calls[1].name \in SENSITIVE_TOOLS THEN "sensitive_tools"
    ELSE "safe_tools"

\* A graph compiled to stop before every tool node.
interrupt_before_every_tool == {"safe_tools", "sensitive_tools"}

\* builder.compile(checkpointer=memory, interrupt_before=["sensitive_tools"])
interrupt_before == {"sensitive_tools"}

(* ------------------------------ tool nodes ----------------------------- *)
\* The tool calls a ToolNode holding node_tools hands to a tool: every call of
\* the last message that names one of its tools, in the order of the message.
\* A node that hands every tool the same arguments, whatever was proposed.
RECURSIVE InvocationsLosingArgs(_, _)
InvocationsLosingArgs(node_tools, calls) ==
    IF calls = <<>> THEN <<>>
    ELSE (IF Head(calls).name \in node_tools
          THEN <<ToolCall(Head(calls).id, Head(calls).name, "args1")>> ELSE <<>>)
         \o InvocationsLosingArgs(node_tools, Tail(calls))

\* A node that runs the first tool call only.
InvocationsFirstOnly(node_tools, calls) ==
    IF calls # <<>> /\ Head(calls).name \in node_tools THEN <<Head(calls)>> ELSE <<>>

\* A node that applies every tool call twice.
RECURSIVE InvocationsTwice(_, _)
InvocationsTwice(node_tools, calls) ==
    IF calls = <<>> THEN <<>>
    ELSE (IF Head(calls).name \in node_tools THEN <<Head(calls), Head(calls)>> ELSE <<>>)
         \o InvocationsTwice(node_tools, Tail(calls))

RECURSIVE Invocations(_, _)
Invocations(node_tools, calls) ==
    IF calls = <<>> THEN <<>>
    ELSE (IF Head(calls).name \in node_tools THEN <<Head(calls)>> ELSE <<>>)
         \o Invocations(node_tools, Tail(calls))

\* langgraph.prebuilt.ToolNode: one ToolMessage per tool call of the last
\* message. A call naming no tool of the node is answered with an error and not
\* run; a tool that raises is answered with the error when the node handles it.
ToolNode(node_tools, msgs, fails) ==
    LET calls == Last(msgs).tool_calls
    IN  [i \in 1..Len(calls) |->
            IF calls[i].name \notin node_tools
            THEN ToolMessage(<<"Error: ", calls[i].name, " is not a valid tool">>,
                             calls[i].id, "error")
            ELSE IF i \in fails
            THEN ToolMessage(<<"Error: ", "ToolException()", "\n Please fix your mistakes.">>,
                             calls[i].id, "error")
            ELSE ToolMessage(<<"result of ", calls[i].name>>, calls[i].id, "success")]

\* A fallback that links every error message to the first tool call.
handle_tool_error_first_id(msgs, error) ==
    LET tool_calls == Last(msgs).tool_calls
    IN  [i \in 1..Len(tool_calls) |->
            ToolMessage(<<"Error: ", error, "\nPlease correct your error.">>,
                        tool_calls[1].id, "success")]

handle_tool_error(msgs, error) ==
    LET tool_calls == Last(msgs).tool_calls
    IN  [i \in 1..Len(tool_calls) |->
            ToolMessage(<<"Error: ", error, "\nPlease correct your error.">>,
                        tool_calls[i].id, "success")]

\* A tool node without the fallback: the exception leaves the node.
tool_node_without_fallback(node_tools, msgs, fails, bubble) ==
    IF fails # {} /\ bubble
    THEN [raised |-> TRUE, messages |-> <<>>]
    ELSE [raised |-> FALSE, messages |-> ToolNode(node_tools, msgs, fails)]

\* ToolNode(tools).with_fallbacks([handle_tool_error], exception_key="error").
\* fails: the calls whose tool raises; bubble: the exception leaves the ToolNode
\* instead of being turned into a message by it.
create_tool_node_with_fallback(node_tools, msgs, fails, bubble) ==
    IF fails # {} /\ bubble
    THEN [raised |-> FALSE, messages |-> handle_tool_error(msgs, "ValueError()")]
    ELSE [raised |-> FALSE, messages |-> ToolNode(node_tools, msgs, fails)]

\* builder.add_edge(START, "assistant"): a run that is given an input starts at
\* the assistant, whatever node the stored state had as its next one.
start_edge == "assistant"

(* ------------------------------- Init ---------------------------------- *)
Init ==
    /\ messages = <<>>
    /\ next = NoNext
    /\ pc = "input"
    /\ llmCalls = 0
    /\ nextId = 1
    /\ invoked = <<>>
    /\ approved = {}
    /\ event = Step("init")
    /\ http = Idle

(* --------------------------- command line loop ------------------------- *)
\* build_and_run_graph, lines 126-138: read a query; leave on q/exit/quit,
\* otherwise hand the query to the graph (the input super-step).
UserQuery ==
    /\ pc = "input"
    /\ \E query \in Queries :
        /\ event' = Event("query", query, {}, FALSE)
        /\ IF Lower(query) \in {<<"q">>, <<"e", "x", "i", "t">>, <<"q", "u", "i", "t">>}
           THEN /\ pc' = "exit"
                /\ UNCHANGED <<messages, next>>
           ELSE /\ messages' = add_messages(messages, <<HumanMessage(query)>>)
                /\ next' = start_edge
                /\ pc' = "stream"
    /\ UNCHANGED <<llmCalls, nextId, invoked, approved, http>>

\* build_and_run_graph, lines 125-129: input() raises; logged, the loop goes on.
InputError ==
    /\ pc = "input"
    /\ event' = Step("input_error")
    /\ UNCHANGED <<messages, next, pc, llmCalls, nextId, invoked, approved, http>>

\* The proposals the Reasoner may return: n tool calls with fresh ids.
Proposals(n) ==
    {[i \in 1..n |-> ToolCall(nextId + i - 1, f[i][1], f[i][2])] :
        f \in [1..n -> ProposalNames \X ProposalArgs]}

\* The assistant node followed by its conditional edge. The graph stops before
\* sensitive_tools (interrupt_before) and at END; astream then returns.
Assistant ==
    /\ pc = "stream"
    /\ next = "assistant"
    /\ llmCalls < MaxLLMCalls
    /\ llmCalls' = llmCalls + 1
    /\ \E n \in 0..(MaxActions - (nextId - 1)) :
        \E calls \in Proposals(n) :
        \E content \in (IF n = 0 THEN AnswerTexts ELSE {<<>>}) :
            LET result == AIMessage(content, calls)
                msgs == add_messages(messages, <<result>>)
                route == route_conditional_tools(msgs)
            IN  /\ messages' = msgs
                /\ nextId' = nextId + n
                /\ next' = (IF route = END THEN NoNext ELSE route)
                /\ pc' = (IF route = END \/ route \in interrupt_before
                          THEN "ptc" ELSE "stream")
    /\ event' = Step("assistant")
    /\ UNCHANGED <<invoked, approved, http>>

\* HigressAssistant.__call__ raises (the Reasoner is unreachable): nothing
\* catches it, the exception leaves build_and_run_graph and the client ends.
\* The checkpoint written before the node stays the latest one.
AssistantFails ==
    /\ pc = "stream"
    /\ next = "assistant"
    /\ llmCalls < MaxLLMCalls
    /\ llmCalls' = llmCalls + 1
    /\ pc' = "crashed"
    /\ event' = Step("reasoner_error")
    /\ UNCHANGED <<messages, next, nextId, invoked, approved, http>>

\* One run of a tool node on the last message, and the edge back to assistant.
RunToolNode(node, node_tools) ==
    /\ pc = "stream"
    /\ next = node
    /\ LET calls == Last(messages).tool_calls
           runs == {i \in 1..Len(calls) : calls[i].name \in node_tools}
       IN  \E fails \in SUBSET runs :
           \E bubble \in (IF fails = {} THEN {FALSE} ELSE BOOLEAN) :
               LET out == create_tool_node_with_fallback(node_tools, messages, fails, bubble)
               IN  /\ invoked' = invoked \o Invocations(node_tools, calls)
                   /\ event' = Event(node, <<>>, fails, bubble)
                   /\ IF out.raised
                      THEN /\ pc' = "crashed"
                           /\ UNCHANGED <<messages, next>>
                      ELSE /\ messages' = add_messages(messages, out.messages)
                           /\ next' = "assistant"
                           /\ pc' = "stream"
    /\ UNCHANGED <<llmCalls, nextId, approved, http>>

SafeTools == RunToolNode("safe_tools", safe_tools)

SensitiveTools == RunToolNode("sensitive_tools", sensitive_tools)

\* A process_tool_calls that returns to the loop where it should ask.
process_tool_calls_not_asking(current_next, current_messages) ==
    IF current_next # NoNext
    THEN LET last_message == Last(current_messages)
         IN  IF last_message.type = "ai" /\ Len(last_message.tool_calls) > 0
             THEN (IF last_message.tool_calls[1].name \in SENSITIVE_TOOLS
                   THEN "input" ELSE "stream")
             ELSE "input"
    ELSE "input"

\* process_tool_calls, lines 149-160 and 190-197, on the stored state: ask
\* ("confirm"), go on without asking ("stream"), or return to the loop ("input").
process_tool_calls(current_next, current_messages) ==
    IF current_next # NoNext
    THEN LET last_message == Last(current_messages)
         IN  IF last_message.type = "ai" /\ Len(last_message.tool_calls) > 0
             THEN (IF last_message.tool_calls[1].name \in SENSITIVE_TOOLS
                   THEN "confirm" ELSE "stream")
             ELSE "input"
    ELSE "input"

\* A rejection that leaves the user's reason out.
rejection_without_reason(last_message, user_input) ==
    <<ToolMessage(<<"Operation rejected by user.">>, last_message.tool_calls[1].id, "success")>>

\* A rejection linked to the last tool call of the message.
rejection_of_last_call(last_message, user_input) ==
    <<ToolMessage(<<"Operation rejected by user. Reason: '">> \o user_input \o <<"'.">>,
                  last_message.tool_calls[Len(last_message.tool_calls)].id, "success")>>

\* process_tool_calls, lines 173-181: the message that rejects the tool call.
rejection_state(last_message, user_input) ==
    <<ToolMessage(<<"Operation rejected by user. Reason: '">> \o user_input \o <<"'.">>,
                  last_message.tool_calls[1].id, "success")>>

\* An approval test that compares the input as it was typed.
is_approval_as_typed(user_input) == user_input = <<"y">>

\* process_tool_calls, line 163: user_input.strip().lower() == "y"
is_approval(user_input) == Lower(Strip(user_input)) = <<"y">>

\* One step of process_tool_calls: read the stored state and branch on it.
ProcessToolCalls ==
    /\ pc = "ptc"
    /\ pc' = process_tool_calls(next, messages)
    /\ event' = Step("process_tool_calls")
    /\ UNCHANGED <<messages, next, llmCalls, nextId, invoked, approved, http>>

\* process_tool_calls, lines 161-189: the approval prompt. On 'y' the graph is
\* resumed with no input (astream(None)): it goes on at the stored next node.
\* Otherwise the rejection is handed to the graph as a new input
\* (astream(rejection_state)): the reducer appends it, the pending node is
\* dropped and the graph starts again at the assistant.
Confirm ==
    /\ pc = "confirm"
    /\ \E user_input \in ApprovalInputs :
        LET last_message == Last(messages)
        IN  IF is_approval(user_input)
            THEN /\ event' = Event("approve", user_input, {}, FALSE)
                 /\ approved' = approved \cup {last_message.tool_calls[1]}
                 /\ UNCHANGED <<messages, next>>
            ELSE /\ event' = Event("reject", user_input, {}, FALSE)
                 /\ messages' = add_messages(messages,
                                             rejection_state(last_message, user_input))
                 /\ next' = start_edge
                 /\ UNCHANGED approved
    /\ pc' = "stream"
    /\ UNCHANGED <<llmCalls, nextId, invoked, http>>

Next ==
    \/ UserQuery
    \/ InputError
    \/ Assistant
    \/ AssistantFails
    \/ SafeTools
    \/ SensitiveTools
    \/ ProcessToolCalls
    \/ Confirm

Spec == Init /\ [][Next]_vars

(* ===================== properties of the conversation ================== *)
Range(f) == {f[i] : i \in DOMAIN f}

\* The assistant proposals of the conversation, by position.
ProposalAt == {i \in 1..Len(messages) : messages[i].type = "ai"}

\* The proposal (position in the conversation) that carries the tool call id.
ProposalOf(id) ==
    CHOOSE i \in ProposalAt : \E k \in 1..Len(messages[i].tool_calls) :
        messages[i].tool_calls[k].id = id

\* The first tool call of the proposal that carries the tool call id.
FirstCallOf(id) == messages[ProposalOf(id)].tool_calls[1]

\* The ToolResults (positions) that answer the tool call id.
ResultsOf(id) ==
    {j \in 1..Len(messages) : messages[j].type = "tool" /\ messages[j].tool_call_id = id}

\* astream has returned and the command line loop holds control.
CallerHasControl == pc \in {"input", "ptc", "confirm"}

(* ------------------------------------------------------------------------ *)
(* C1: a tool whose name is in the sensitive set is invoked only after the  *)
(* user approved while that very tool call was the pending action (the      *)
(* first call of the last message), also for a call that is not the first   *)
(* of its proposal.                                                         *)
(* ------------------------------------------------------------------------ *)
C1_SensitiveInvokedOnlyWhenItselfApproved ==
    \A i \in 1..Len(invoked) :
        invoked[i].name \in SENSITIVE_TOOLS => invoked[i] \in approved

(* ------------------------------------------------------------------------ *)
(* C2: every tool that issues an HTTP PUT or POST is classified Sensitive,  *)
(* so a tool that mutates the control plane runs only after the user        *)
(* approved the proposal that carries its call.                             *)
(* ------------------------------------------------------------------------ *)
Succeeded(id) == \E j \in ResultsOf(id) : messages[j].content[1] = "result of "

C2_NoMutationWithoutApproval ==
    \A i \in 1..Len(invoked) :
        (Mutates(invoked[i].name) /\ Succeeded(invoked[i].id)) =>
            /\ invoked[i].name \in SENSITIVE_TOOLS
            /\ FirstCallOf(invoked[i].id) \in approved

(* ------------------------------------------------------------------------ *)
(* C3: when astream has returned, the graph is suspended (the stored state  *)
(* has a next node) iff the latest proposal has a first tool call and that  *)
(* call is Sensitive; while every proposal so far has a Safe first call (or *)
(* none), the graph is never suspended and the approval prompt is never     *)
(* reached.                                                                 *)
(* ------------------------------------------------------------------------ *)
FirstIsSensitive(m) ==
    /\ m.type = "ai"
    /\ Len(m.tool_calls) > 0
    /\ m.tool_calls[1].name \in SENSITIVE_TOOLS

Suspended == CallerHasControl /\ next # NoNext

C3_SuspendsIffFirstSensitive ==
    /\ CallerHasControl =>
          (next # NoNext <=>
              /\ ProposalAt # {}
              /\ FirstIsSensitive(messages[Len(messages)]))
    /\ (\A i \in ProposalAt : ~FirstIsSensitive(messages[i])) =>
          (~Suspended /\ pc # "confirm")

\* Suspended on a second proposal, after a safe proposal ran without a pause.
C3_Witness ==
    /\ Suspended
    /\ Len(invoked) = 1
    /\ invoked[1].name \notin SENSITIVE_TOOLS
    /\ Cardinality(ProposalAt) = 2

(* ------------------------------------------------------------------------ *)
(* C4: an Approve on a pending sensitive action results in exactly one      *)
(* invocation of that action by the tool node (none while the resumed node  *)
(* has not run yet), with the name and the arguments exactly as proposed.   *)
(* ------------------------------------------------------------------------ *)
InvocationsOf(id) == {i \in 1..Len(invoked) : invoked[i].id = id}

ResumePending(a) ==
    /\ pc = "stream"
    /\ next = "sensitive_tools"
    /\ Last(messages).tool_calls[1].id = a.id

C4_ApprovedInvokedOnceAsProposed ==
    \A a \in approved :
        /\ a = FirstCallOf(a.id)
        /\ Cardinality(InvocationsOf(a.id)) = (IF ResumePending(a) THEN 0 ELSE 1)
        /\ \A i \in InvocationsOf(a.id) : invoked[i] = a

\* An approved action proposed with the second argument value has been invoked.
C4_Witness ==
    \E a \in approved :
        /\ a.args = "args2"
        /\ \E i \in 1..Len(invoked) : invoked[i] = a

(* ------------------------------------------------------------------------ *)
(* C5: a rejection appends exactly one ToolResult, whose tool_call_id is    *)
(* the id of the pending action of the stored state and whose content       *)
(* carries the user's reason; nothing is invoked, the stored next node      *)
(* becomes the assistant (Reasoning) and the rejected action is never       *)
(* invoked later.                                                           *)
(* ------------------------------------------------------------------------ *)
IsRejection(m) ==
    /\ m.type = "tool"
    /\ m.content[1] = "Operation rejected by user. Reason: '"

RejectedNeverInvoked ==
    \A j \in 1..Len(messages) :
        IsRejection(messages[j]) => InvocationsOf(messages[j].tool_call_id) = {}

RejectStep ==
    (pc = "confirm" /\ event'.op = "reject") =>
        LET pending == Last(messages).tool_calls[1]
            result == messages'[Len(messages')]
        IN  /\ Len(messages') = Len(messages) + 1
            /\ SubSeq(messages', 1, Len(messages)) = messages
            /\ result.type = "tool"
            /\ result.tool_call_id = pending.id
            /\ SubSeq(result.content, 2, Len(result.content) - 1) = event'.input
            /\ invoked' = invoked
            /\ next' = "assistant"
            /\ pc' = "stream"

C5_RejectInjectsOneResult == [][RejectStep]_vars /\ []RejectedNeverInvoked

\* A two-call proposal has just been rejected with a non-empty reason.
C5_Witness ==
    /\ event.op = "reject"
    /\ event.input = <<"q", "u", "i", "t">>
    /\ Len(messages[Len(messages) - 1].tool_calls) = 2

(* ------------------------------------------------------------------------ *)
(* C6: when a tool raises in a tool node (safe or approved), the graph does *)
(* not abort: every failing call gets a ToolResult with a non-empty error   *)
(* text in the conversation and the next node is the assistant.             *)
(* ------------------------------------------------------------------------ *)
IsErrorText(content) ==
    /\ Len(content) >= 2
    /\ content[1] = "Error: "
    /\ content[2] # ""

ToolStep == pc = "stream" /\ next \in {"safe_tools", "sensitive_tools"} /\ event'.op = next

FailureStep ==
    (ToolStep /\ event'.fails # {}) =>
        /\ pc' = "stream"
        /\ next' = "assistant"
        /\ \A i \in event'.fails :
            \E j \in (Len(messages) + 1)..Len(messages') :
                /\ messages'[j].type = "tool"
                /\ messages'[j].tool_call_id = Last(messages).tool_calls[i].id
                /\ IsErrorText(messages'[j].content)

C6_ToolFailureBecomesResult == [][FailureStep]_vars

\* An approved tool has raised and the exception left the ToolNode.
C6_Witness ==
    /\ event.op = "sensitive_tools"
    /\ event.fails # {}
    /\ event.bubble
    /\ pc = "stream"

SameNodeAsFirst(calls, c) ==
    /\ c.name \in tools
    /\ (c.name \in SENSITIVE_TOOLS <=> calls[1].name \in SENSITIVE_TOOLS)

NodeHandlesEveryCall ==
    ToolStep =>
        LET calls == Last(messages).tool_calls
            Runs(c) == SameNodeAsFirst(calls, c)
        IN  /\ invoked' = invoked \o SelectSeq(calls, Runs)
            /\ Len(messages') = Len(messages) + Len(calls)
            /\ \A k \in 1..Len(calls) :
                LET result == messages'[Len(messages) + k]
                IN  /\ result.type = "tool"
                    /\ result.tool_call_id = calls[k].id
                    /\ ~Runs(calls[k]) => IsErrorText(result.content)

C8_EveryActionConsumedOnce ==
    (pc = "stream" /\ next = "assistant") =>
        \A i \in ProposalAt : \A k \in 1..Len(messages[i].tool_calls) :
            Cardinality(ResultsOf(messages[i].tool_calls[k].id)) = 1

(* ------------------------------------------------------------------------ *)
(* C9: every ToolResult of the conversation answers a tool call of an       *)
(* earlier proposal of the same conversation, and no earlier ToolResult     *)
(* answers the same call.                                                   *)
(* ------------------------------------------------------------------------ *)
C9_ResultsAnswerOpenActions ==
    \A j \in 1..Len(messages) :
        messages[j].type = "tool" =>
            /\ \E i \in 1..(j - 1) :
                /\ messages[i].type = "ai"
                /\ \E k \in 1..Len(messages[i].tool_calls) :
                      messages[i].tool_calls[k].id = messages[j].tool_call_id
            /\ \A h \in 1..(j - 1) :
                ~(messages[h].type = "tool"
                  /\ messages[h].tool_call_id = messages[j].tool_call_id)

\* The fallback has just answered both calls of a two-call proposal.
C9_Witness ==
    /\ event.bubble
    /\ Len(messages) >= 3
    /\ messages[Len(messages)].type = "tool"
    /\ messages[Len(messages) - 1].type = "tool"
    /\ Len(messages[Len(messages) - 2].tool_calls) = 2

(* ------------------------------------------------------------------------ *)
(* C10: whenever the command line loop holds control, the stored state has  *)
(* a pending node exactly when the loop is at (or on its way to) the        *)
(* approval prompt: never when it asks for the next query, always at the    *)
(* prompt, and the pending action is then a sensitive first call that has   *)
(* been neither approved nor answered (an earlier one was cleared by the    *)
(* resume or by the rejection).                                             *)
(* ------------------------------------------------------------------------ *)
C10_PendingIffAwaitingConfirmation ==
    /\ pc = "input" => next = NoNext
    /\ pc = "confirm" => next = "sensitive_tools"
    /\ Suspended =>
          /\ next = "sensitive_tools"
          /\ process_tool_calls(next, messages) = "confirm"
          /\ Last(messages).tool_calls[1] \notin approved
          /\ ResultsOf(Last(messages).tool_calls[1].id) = {}

\* Back at the query prompt after an approved action ran: the pending action
\* was set and then cleared by the resume.
C10_Witness ==
    /\ pc = "input"
    /\ approved # {}
    /\ next = NoNext

(* ------------------------------------------------------------------------ *)
(* C11 (as claimed): once an action has been decided, a further decision    *)
(* ('y' entered again) is refused as an error: it is not handed to the      *)
(* graph and the conversation stays as it is.                               *)
(* ------------------------------------------------------------------------ *)
RejectionsOf(id) == {j \in ResultsOf(id) : IsRejection(messages[j])}

SomeActionDecided ==
    \/ approved # {}
    \/ \E j \in 1..Len(messages) : IsRejection(messages[j])

StaleDecisionRefused ==
    (/\ pc = "input"
     /\ SomeActionDecided
     /\ event'.op = "query"
     /\ Lower(Strip(event'.input)) = <<"y">>) =>
        (pc' # "stream" /\ messages' = messages)

C11_StaleDecisionYieldsError == [][StaleDecisionRefused]_vars

(* ------------------------------------------------------------------------ *)
(* C11 (amended): every action is decided at most once: it is approved or   *)
(* rejected, never both and never twice; a rejected action is never         *)
(* executed, an approved one at most once, and a decided action never has   *)
(* more than one ToolResult. With nothing pending process_tool_calls        *)
(* returns to the query prompt without asking and without an error, and an  *)
(* input entered there, 'y' included, is a new user message, not a          *)
(* decision.                                                                *)
(* ------------------------------------------------------------------------ *)
Approvals(c) == IF c \in approved THEN 1 ELSE 0

DecidedAtMostOnce ==
    \A i \in ProposalAt : \A k \in 1..Len(messages[i].tool_calls) :
        LET c == messages[i].tool_calls[k]
            decisions == Approvals(c) + Cardinality(RejectionsOf(c.id))
        IN  /\ decisions <= 1
            /\ k > 1 => decisions = 0
            /\ decisions = 1 =>
                  /\ Cardinality(ResultsOf(c.id)) <= 1
                  /\ Cardinality(InvocationsOf(c.id)) <= Approvals(c)

NothingPendingStep ==
    (pc = "ptc" /\ next = NoNext) =>
        (pc' = "input" /\ UNCHANGED <<messages, next, invoked, approved>>)

QueryIsNoDecision ==
    (pc = "input" /\ event'.op = "query" /\ pc' # "exit") =>
        /\ messages' = messages \o <<HumanMessage(event'.input)>>
        /\ UNCHANGED <<invoked, approved>>

C11_NoSecondDecision ==
    /\ []DecidedAtMostOnce
    /\ [][NothingPendingStep /\ QueryIsNoDecision]_vars

\* After an approved action ran and the turn ended, the user enters 'y' again.
C11_Witness ==
    /\ event.op = "query"
    /\ event.input = <<"y">>
    /\ approved # {}
    /\ \A a \in approved : Cardinality(InvocationsOf(a.id)) = 1

(* ------------------------------------------------------------------------ *)
(* C12: a proposal with zero actions and empty content is invalid; the      *)
(* adapter retries until the Reasoner returns a valid one, so the stored    *)
(* conversation never contains an invalid proposal (only the final valid    *)
(* one is appended).                                                        *)
(* ------------------------------------------------------------------------ *)
InvalidProposal(m) ==
    /\ m.type = "ai"
    /\ Len(m.tool_calls) = 0
    /\ m.content = <<>>

C12_OnlyValidProposalsStored ==
    \A i \in ProposalAt : ~InvalidProposal(messages[i])

(* ------------------------------------------------------------------------ *)
(* C13: when the Reasoner call fails, the stored conversation is what it    *)
(* was before the call and the session stays usable: the loop is back at    *)
(* the query prompt for a later message.                                    *)
(* ------------------------------------------------------------------------ *)
ReasonerFailureStep ==
    (pc = "stream" /\ next = "assistant" /\ event'.op = "reasoner_error") =>
        (messages' = messages /\ pc' = "input")

C13_ReasonerFailureKeepsSessionUsable == [][ReasonerFailureStep]_vars

(* ------------------------------------------------------------------------ *)
(* C14 (as claimed): an approval input that is neither an approval nor a    *)
(* stated reason (the empty input) is an error that leaves the conversation *)
(* and the pending action unchanged.                                        *)
(* ------------------------------------------------------------------------ *)
MalformedDecisionStep ==
    (pc = "confirm" /\ event'.op \in {"approve", "reject"} /\ Strip(event'.input) = <<>>) =>
        UNCHANGED <<messages, next>>

C14_MalformedDecisionLeavesState == [][MalformedDecisionStep]_vars

(* ------------------------------------------------------------------------ *)
(* C14 (amended): the approval prompt has no malformed input and no error:  *)
(* an input that is 'y' once trimmed and lower-cased approves and leaves    *)
(* the conversation unchanged; every other input, the empty one included,   *)
(* is a rejection with that input as its reason, which appends one          *)
(* ToolResult and clears the pending action. Either way the graph runs on.  *)
(* ------------------------------------------------------------------------ *)
ApprovingInputs == {<<"y">>, <<" ", "Y", " ">>}

DecisionStep ==
    (pc = "confirm" /\ event' # event) =>
        /\ pc' = "stream"
        /\ IF event'.input \in ApprovingInputs
           THEN /\ event'.op = "approve"
                /\ UNCHANGED <<messages, next>>
           ELSE /\ event'.op = "reject"
                /\ Len(messages') = Len(messages) + 1
                /\ IsRejection(messages'[Len(messages')])
                /\ next' # next

C14_EveryInputIsADecision == [][DecisionStep]_vars

\* The empty input has just been taken as a rejection.
C14_Witness ==
    /\ event.op = "reject"
    /\ event.input = <<>>
    /\ IsRejection(messages[Len(messages)])
    /\ next = "assistant"

(* ------------------------------------------------------------------------ *)
(* C16: the graph ends (Terminal) exactly when the latest proposal carries  *)
(* no action: the assistant step routes to END iff its proposal has no tool *)
(* call and to a tool node iff it has one; the graph is never at END while  *)
(* the last proposal has an action, and a tool node is never the next node  *)
(* unless the last message is a proposal with an action.                    *)
(* ------------------------------------------------------------------------ *)
HasActions(m) == m.type = "ai" /\ Len(m.tool_calls) > 0

Terminal == next = NoNext /\ messages # <<>>

TerminalIffNoActions ==
    /\ Terminal => (Last(messages).type = "ai" /\ ~HasActions(Last(messages)))
    /\ next \in {"safe_tools", "sensitive_tools"} => HasActions(Last(messages))

AssistantRouteStep ==
    (pc = "stream" /\ next = "assistant" /\ event'.op = "assistant") =>
        /\ Last(messages').type = "ai"
        /\ (next' = NoNext) <=> ~HasActions(Last(messages'))
        /\ (next' \in {"safe_tools", "sensitive_tools"}) <=> HasActions(Last(messages'))
        /\ next' = NoNext => pc' = "ptc"

C16_TerminalIffNoActions == []TerminalIffNoActions /\ [][AssistantRouteStep]_vars

\* The graph has just ended on a final answer that follows a tool run.
C16_Witness ==
    /\ Terminal
    /\ pc = "ptc"
    /\ Len(invoked) > 0
    /\ Last(messages).content = <<"answer">>

(* ------------------------------------------------------------------------ *)
(* C17: the command line loop holds control only before the first message,  *)
(* in Terminal or while an approval is awaited (a sensitive first call that *)
(* is pending and undecided); the graph never hands control back before the *)
(* safe node or the assistant, and the query prompt is reached only with no *)
(* pending action.                                                          *)
(* ------------------------------------------------------------------------ *)
AwaitingApproval ==
    /\ next = "sensitive_tools"
    /\ FirstIsSensitive(Last(messages))
    /\ Last(messages).tool_calls[1] \notin approved

BeforeFirstMessage == messages = <<>> /\ next = NoNext /\ pc = "input"

AstreamReturnStep ==
    (pc = "stream" /\ pc' \in {"input", "ptc", "confirm"}) =>
        /\ pc' = "ptc"
        /\ \/ next' = NoNext
           \/ (next' = "sensitive_tools" /\ FirstIsSensitive(Last(messages')))

ControlOnlyAtRest ==
    /\ CallerHasControl => (BeforeFirstMessage \/ Terminal \/ AwaitingApproval)
    /\ pc = "input" => ~AwaitingApproval
    /\ pc = "confirm" => AwaitingApproval

C17_ControlOnlyInTerminalOrAwaiting == []ControlOnlyAtRest /\ [][AstreamReturnStep]_vars

\* Back at the query prompt in Terminal after a rejected action.
C17_Witness ==
    /\ pc = "input"
    /\ Terminal
    /\ \E j \in 1..Len(messages) : IsRejection(messages[j])

(* ------------------------------------------------------------------------ *)
(* C19: the conversation is append-only: after every step the conversation  *)
(* of before the step is an unchanged prefix of the new one, also from one  *)
(* user message to the next.                                                *)
(* ------------------------------------------------------------------------ *)
IsPrefix(s, t) == Len(s) <= Len(t) /\ SubSeq(t, 1, Len(s)) = s

C19_ConversationAppendOnly == [][IsPrefix(messages, messages')]_vars

\* A second user message has been appended after a finished turn.
C19_Witness ==
    /\ Len(messages) >= 3
    /\ messages[1].type = "human"
    /\ Last(messages).type = "human"
    /\ event.op = "query"

(* ------------------------------------------------------------------------ *)
(* C20: the class of an action is a function of its name alone: the first   *)
(* call is routed to the sensitive node iff its name is in the sensitive    *)
(* set, and every other name, one that no tool carries included, is routed  *)
(* to the safe node and passes process_tool_calls without a prompt; the     *)
(* prompt is asked for exactly the names of the sensitive set.              *)
(* ------------------------------------------------------------------------ *)
ClassByNameStep ==
    (pc = "stream" /\ next = "assistant" /\ event'.op = "assistant"
        /\ HasActions(Last(messages'))) =>
        LET name == Last(messages').tool_calls[1].name
        IN  /\ name \in SENSITIVE_TOOLS => next' = "sensitive_tools"
            /\ name \notin SENSITIVE_TOOLS => (next' = "safe_tools" /\ pc' = "stream")
            /\ name \notin tools => next' = "safe_tools"

PromptByNameStep ==
    (pc = "ptc" /\ next # NoNext) =>
        (pc' = "confirm" <=> Last(messages).tool_calls[1].name \in SENSITIVE_TOOLS)

C20_ClassIsFunctionOfName == [][ClassByNameStep /\ PromptByNameStep]_vars

\* A proposal naming no registered tool has been routed to the safe node.
C20_Witness ==
    /\ event.op = "assistant"
    /\ next = "safe_tools"
    /\ Last(messages).tool_calls[1].name = "unknown_tool"
    /\ pc = "stream"

(* ====================== the loop under fair scheduling ================= *)
\* The Reasoner eventually returns a proposal with no actions: within the
\* bound of the model, the last call it is allowed returns a final answer.
LiveAssistant ==
    /\ Assistant
    /\ llmCalls' = MaxLLMCalls => ~HasActions(Last(messages'))

\* A message is sent only while the Reasoner can still be called for it.
LiveUserQuery ==
    /\ UserQuery
    /\ pc' = "stream" => llmCalls < MaxLLMCalls

\* graph.astream runs the node that is next until the graph ends or stops.
GraphStep ==
    \/ LiveAssistant
    \/ AssistantFails
    \/ SafeTools
    \/ SensitiveTools

LiveNext ==
    \/ LiveUserQuery
    \/ InputError
    \/ GraphStep
    \/ ProcessToolCalls
    \/ Confirm

\* astream runs the graph on, process_tool_calls follows it, and every approval
\* prompt is answered. Nothing obliges the user to send a further message.
LiveSpec ==
    /\ Init
    /\ [][LiveNext]_vars
    /\ WF_vars(GraphStep)
    /\ WF_vars(ProcessToolCalls)
    /\ WF_vars(Confirm)

(* ------------------------------------------------------------------------ *)
(* C18: if every approval prompt is answered and the Reasoner returns (it   *)
(* never raises, and eventually gives a proposal with no actions), every    *)
(* user message handed to the graph eventually reaches Terminal, whatever   *)
(* safe runs, tool failures, approvals and rejections lie between.          *)
(* ------------------------------------------------------------------------ *)
UserMessageSent == pc = "stream" /\ event.op = "query"

ReasonerReturns == [](pc # "crashed")

RejectionText(reason) == <<"Operation rejected by user. Reason: '">> \o reason \o <<"'.">>

DenyByDefaultStep ==
    (pc = "confirm" /\ event' # event) =>
        LET pending == Last(messages).tool_calls[1]
            typed == event'.input
        IN  IF Lower(Strip(typed)) = <<"y">>
            THEN /\ pending \in approved'
                 /\ next' = "sensitive_tools"
            ELSE /\ approved' = approved
                 /\ invoked' = invoked
                 /\ next' = "assistant"
                 /\ messages' = messages \o
                        <<ToolMessage(RejectionText(typed), pending.id, "success")>>

PendingRunsOnlyApproved ==
    \A i \in 1..Len(invoked) :
        (invoked[i].name \in SENSITIVE_TOOLS /\ FirstCallOf(invoked[i].id) = invoked[i]) =>
            /\ invoked[i] \in approved
            /\ RejectionsOf(invoked[i].id) = {}

C25_DenyByDefault == []PendingRunsOnlyApproved /\ [][DenyByDefaultStep]_vars

\* 'quit' typed at the approval prompt has rejected the pending action.
C25_Witness ==
    /\ event.op = "reject"
    /\ event.input = <<"q", "u", "i", "t">>
    /\ pc = "stream"
    /\ Last(messages).content = RejectionText(<<"q", "u", "i", "t">>)
    /\ InvocationsOf(Last(messages).tool_call_id) = {}

(* ------------------------------------------------------------------------ *)
(* C26: whenever process_tool_calls reads a stored state with a pending     *)
(* node, the last message is a proposal whose first tool call is in the     *)
(* sensitive set; so its branch that continues a pending non-sensitive call *)
(* without confirmation is never taken.                                     *)
(* ------------------------------------------------------------------------ *)
PendingIsSensitiveFirst ==
    (pc \in {"ptc", "confirm"} /\ next # NoNext) =>
        /\ Last(messages).type = "ai"
        /\ Len(Last(messages).tool_calls) > 0
        /\ Last(messages).tool_calls[1].name \in SENSITIVE_TOOLS

ContinueBranchNotTaken == pc = "ptc" => pc' # "stream"

C26_ContinueBranchNeverTaken == []PendingIsSensitiveFirst /\ [][ContinueBranchNotTaken]_vars

\* A pending proposal whose second call is not sensitive is read by
\* process_tool_calls: its first call decides.
C26_Witness ==
    /\ pc = "ptc"
    /\ next = "sensitive_tools"
    /\ Len(Last(messages).tool_calls) = 2
    /\ Last(messages).tool_calls[2].name \notin SENSITIVE_TOOLS

(* ------------------------------------------------------------------------ *)
(* C27: routing and the tool partition agree: every loaded tool is held by  *)
(* exactly one of the two tool nodes, and a proposal whose first call names *)
(* a loaded tool is routed to the node that holds it, which then hands the  *)
(* call to the tool.                                                        *)
(* ------------------------------------------------------------------------ *)
NodeTools(node) == IF node = "sensitive_tools" THEN sensitive_tools ELSE safe_tools

PartitionOfTools ==
    /\ sensitive_tools \cup safe_tools = tools
    /\ sensitive_tools \cap safe_tools = {}

RoutedToHoldingNode ==
    (next \in {"safe_tools", "sensitive_tools"} /\ Last(messages).tool_calls[1].name \in tools) =>
        Last(messages).tool_calls[1].name \in NodeTools(next)

FirstLoadedCallRunStep ==
    (pc = "stream" /\ next \in {"safe_tools", "sensitive_tools"}
        /\ Last(messages).tool_calls[1].name \in tools /\ event'.op = next) =>
        \E i \in (Len(invoked) + 1)..Len(invoked') : invoked'[i] = Last(messages).tool_calls[1]

C27_RoutingAgreesWithPartition ==
    /\ [](PartitionOfTools /\ RoutedToHoldingNode)
    /\ [][FirstLoadedCallRunStep]_vars

\* set_plugin, a loaded tool outside the sensitive set, has been routed to the
\* safe node and run there.
C27_Witness ==
    /\ event.op = "safe_tools"
    /\ Len(invoked) > 0
    /\ invoked[1].name = "set_plugin"
    /\ invoked[1].name \in safe_tools

(* ==================== the operations of the client ===================== *)
(* One action per operation: it is called with arguments drawn from the    *)
(* input sets, the server answers each request it sends with any response, *)
(* and http records the call, the requests sent and the outcome.           *)
(* ======================================================================= *)
loopVars == <<messages, next, pc, llmCalls, nextId, invoked, approved, event>>

Called(op, args, responses, ran) ==
    [call |-> <<op, args>>, responses |-> responses, sent |-> ran.sent, outcome |-> ran.outcome]

GetPlugin ==
    /\ http = Idle
    /\ \E scope \in Scopes, resource_name \in ResourceNames :
       \E response \in Responses(PluginPayloads) :
           http' = Called("get_plugin",
                          [name |-> "request-block", scope |-> scope,
                           resource_name |-> resource_name],
                          <<response>>,
                          get_plugin("request-block", scope, resource_name, response))
    /\ UNCHANGED loopVars

UpdateRequestBlockPlugin ==
    /\ http = Idle
    /\ \E scope \in Scopes, resource_name \in ResourceNames :
       \E enabled \in BOOLEAN, configurations \in OptionalConfigs :
       \E read \in Responses(PluginPayloads), write \in Responses({Saved}) :
           http' = Called("update_request_block_plugin",
                          [enabled |-> enabled, configurations |-> configurations,
                           scope |-> scope, resource_name |-> resource_name],
                          <<read, write>>,
                          update_request_block_plugin(enabled, configurations, scope,
                                                      resource_name, <<read, write>>))
    /\ UNCHANGED loopVars

ListRoutes ==
    /\ http = Idle
    /\ \E response \in Responses({Saved}) :
           http' = Called("list_routes", <<>>, <<response>>,
                          get(<<"v1", "routes">>, response))
    /\ UNCHANGED loopVars

AddRoute ==
    /\ http = Idle
    /\ \E route_config \in RouteConfigs :
       \E response \in Responses({Saved}) :
           http' = Called("add_route", [route_config |-> route_config], <<response>>,
                          add_route(route_config, response))
    /\ UNCHANGED loopVars

UpdateRouteTool ==
    /\ http = Idle
    /\ \E route_name \in ResourceNames, route_config \in RouteConfigs :
       \E response \in Responses({Saved}) :
           http' = Called("update_route",
                          [route_name |-> route_name, route_config |-> route_config],
                          <<response>>,
                          update_route_tool(route_name, route_config, response))
    /\ UNCHANGED loopVars

AddServiceSource ==
    /\ http = Idle
    /\ \E service_source_config \in ServiceSourceConfigs :
       \E response \in Responses({Saved}) :
           http' = Called("add_service_source",
                          [service_source_config |-> service_source_config],
                          <<response>>,
                          add_service_source(service_source_config, response))
    /\ UNCHANGED loopVars

SetPlugin ==
    /\ http = Idle
    /\ \E configurations \in PluginConfigs :
       \E read \in Responses(PluginPayloads), write \in Responses({Saved}) :
           http' = Called("set_plugin",
                          [name |-> "request-block", configurations |-> configurations],
                          <<read, write>>,
                          set_plugin("request-block", configurations, <<read, write>>))
    /\ UNCHANGED loopVars

\* The operation has returned or raised; the client keeps nothing of it.
Done ==
    /\ http # Idle
    /\ http' = Idle
    /\ UNCHANGED loopVars

ClientNext ==
    \/ GetPlugin
    \/ UpdateRequestBlockPlugin
    \/ ListRoutes
    \/ AddRoute
    \/ UpdateRouteTool
    \/ AddServiceSource
    \/ SetPlugin
    \/ Done

ClientSpec == Init /\ [][ClientNext]_vars

(* ================== properties of the client's operations ============== *)
Op == http.call[1]

Args == http.call[2]

\* The response is a failure: no connection, an error status, or a body
\* whose success field is present and false.
Failed(response) ==
    \/ response.kind \in {"transport", "status"}
    \/ /\ response.kind = "json"
       /\ "success" \in DOMAIN response.body
       /\ response.body.success = FALSE

\* What a successful response carries: its data field, or else all of it.
Carried(response) ==
    IF "data" \in DOMAIN response.body THEN response.body.data ELSE response.body

(* ------------------------------------------------------------------------ *)
(* C21: the update_route tool, called with a non-empty route_name and a     *)
(* route_config, sends exactly one PUT to /v1/routes/{route_name} that      *)
(* carries route_config, and returns what a successful response carries.    *)
(* ------------------------------------------------------------------------ *)
C21_UpdateRouteSendsOnePut ==
    (Op = "update_route" /\ Args.route_name # "") =>
        /\ http.sent = <<Request("PUT", <<"v1", "routes", Args.route_name>>,
                                 Some(Args.route_config))>>
        /\ ~Failed(http.responses[1]) => http.outcome = Return(Carried(http.responses[1]))

(* ------------------------------------------------------------------------ *)
(* C22: update_plugin (through update_request_block_plugin) first sends the *)
(* GET of the plugin; if that read fails nothing else is sent; if it        *)
(* succeeds exactly one PUT follows, to the same path, whose enabled flag   *)
(* is the supplied one and whose configurations are the current ones        *)
(* overridden by the supplied keys: a key not supplied keeps its value, a   *)
(* None or empty mapping changes none, and the other fields are the read    *)
(* ones.                                                                    *)
(* ------------------------------------------------------------------------ *)
Mapping(optional) == IF optional = None THEN <<>> ELSE optional[1]

C22_UpdatePluginMerges ==
    (Op = "update_request_block_plugin" /\ http.sent # <<>>) =>
        LET read == http.responses[1]
        IN  /\ http.sent[1].method = "GET"
            /\ http.sent[1].json = None
            /\ Failed(read) => (Len(http.sent) = 1 /\ http.outcome = Raise("ValueError"))
            /\ ~Failed(read) =>
                  LET current == Carried(read)
                      old == Mapping(current.configurations)
                      supplied == Mapping(Args.configurations)
                      body == http.sent[2].json[1]
                      new == body.configurations[1]
                  IN  /\ Len(http.sent) = 2
                      /\ http.sent[2].method = "PUT"
                      /\ http.sent[2].path = http.sent[1].path
                      /\ body.enabled = Args.enabled
                      /\ body.name = current.name
                      /\ DOMAIN new = DOMAIN old \cup DOMAIN supplied
                      /\ \A k \in DOMAIN supplied : new[k] = supplied[k]
                      /\ \A k \in DOMAIN old \ DOMAIN supplied : new[k] = old[k]
                      /\ supplied = <<>> => new = old

\* A PUT went out whose configurations keep one current key and override another.
C22_Witness ==
    /\ Op = "update_request_block_plugin"
    /\ Len(http.sent) = 2
    /\ Mapping(Carried(http.responses[1]).configurations) =
           [k \in {"blocked_code", "block_urls"} |-> "a"]
    /\ Mapping(Args.configurations) = [k \in {"blocked_code"} |-> "b"]
    /\ http.sent[2].json[1].configurations[1] =
           [k \in {"blocked_code", "block_urls"} |-> IF k = "blocked_code" THEN "b" ELSE "a"]

(* ------------------------------------------------------------------------ *)
(* C23: an operation whose own validation of its input fails raises         *)
(* ValueError and has sent no request: get_plugin and update_plugin with a  *)
(* non-global scope and no resource_name or with a scope outside global,    *)
(* domain, service, route; add_route without name, path or services;        *)
(* add_service_source without name, type, domain or port, or of type dns    *)
(* without protocol; set_plugin with a configuration that                   *)
(* validate_plugin_config refuses.                                          *)
(* ------------------------------------------------------------------------ *)
Without(d, keys) == \E k \in keys : k \notin DOMAIN d \/ d[k] = ""

InvalidInput ==
    \/ /\ Op \in {"get_plugin", "update_request_block_plugin"}
       /\ \/ (Args.scope # "global" /\ Args.resource_name = "")
          \/ Args.scope \notin {"global", "domain", "service", "route"}
    \/ /\ Op = "add_route"
       /\ Without(Args.route_config, {"name", "path", "services"})
    \/ /\ Op = "add_service_source"
       /\ \/ Without(Args.service_source_config, {"name", "type", "domain", "port"})
          \/ /\ Args.service_source_config["type"] = "dns"
             /\ Without(Args.service_source_config, {"protocol"})
    \/ /\ Op = "set_plugin"
       /\ ~validate_plugin_config(Args.configurations)

C23_InvalidInputSendsNothing ==
    InvalidInput => (http.outcome = Raise("ValueError") /\ http.sent = <<>>)

\* add_service_source of type dns was refused for its missing protocol only.
C23_Witness ==
    /\ Op = "add_service_source"
    /\ ~Without(Args.service_source_config, {"name", "type", "domain", "port"})
    /\ Args.service_source_config["type"] = "dns"
    /\ "protocol" \notin DOMAIN Args.service_source_config
    /\ http.outcome = Raise("ValueError")
    /\ http.sent = <<>>

(* ------------------------------------------------------------------------ *)
(* C24: every failure of HigressClient.get, post or put is a ValueError: no *)
(* connection, an error status, and a body whose success field is present   *)
(* and false; a request that succeeds returns the data field of the body    *)
(* when it has one and the whole body otherwise. A request is sent only     *)
(* after the one before it succeeded, so the last request decides.          *)
(* ------------------------------------------------------------------------ *)
ClientOps ==
    {"get_plugin", "update_request_block_plugin", "list_routes", "add_route",
     "add_service_source"}

C24_FailuresAreValueErrors ==
    (Op \in ClientOps /\ http.sent # <<>>) =>
        LET last == Len(http.sent)
        IN  /\ \A i \in 1..(last - 1) : ~Failed(http.responses[i])
            /\ Failed(http.responses[last]) => http.outcome = Raise("ValueError")
            /\ ~Failed(http.responses[last]) =>
                  /\ last = Len(http.responses)
                  /\ http.outcome = Return(Carried(http.responses[last]))

\* A PUT answered by a body without data field returned the whole body.
C24_Witness ==
    /\ Op = "update_request_block_plugin"
    /\ Len(http.sent) = 2
    /\ http.sent[2].method = "PUT"
    /\ http.responses[2] = Json(Saved)
    /\ http.outcome = Return(Saved)

====
